---------------------------- MODULE Spec2Model ----------------------------
(***************************************************************************)
(* A model of mercari_telegram_bot_config_improved.py: the seen-item store *)
(* and the new/cheaper decision of fetch_items, save_seen_items, the       *)
(* exchange-rate cache of get_exchange_rate_with_fallback, the price       *)
(* parser convert_price_to_yen and the retry loop of fetch_with_retry.     *)
(*                                                                         *)
(* Conventions.  A Python Optional is a sequence of length <= 1: <<>> is   *)
(* None, <<v>> is the value v.  A float rate is the rational n/d.  A       *)
(* string that the code only compares or stores is a TLA+ string; a string *)
(* that the code takes apart (a price text, a URL) is modelled by its      *)
(* parts.  md5 is taken to be injective on the strings it is given.        *)
(***************************************************************************)
EXTENDS Integers, Sequences, FiniteSets, TLC

(***************************************************************************)
(* Bounds of the model.                                                    *)
(***************************************************************************)
MaxBatch == 2        \* item elements on one result page
MaxElements == 3     \* item elements handled in one run of the program
MaxFetches == 3      \* fetch_items calls in one run of LoopSpec
MaxSeenCfg == 2      \* MAX_SEEN_ITEMS is any of 0..MaxSeenCfg

None == <<>>
Some(v) == <<v>>

Max(a, b) == IF a >= b THEN a ELSE b
Min(a, b) == IF a <= b THEN a ELSE b

(***************************************************************************)
(* Rates.  145.0 is the default of get_usd_to_jpy_rate and of              *)
(* get_exchange_rate_with_fallback.                                        *)
(***************************************************************************)
Rat(n, d) == [n |-> n, d |-> d]
DEFAULT_RATE == Rat(145, 1)
LiveRates == {Rat(150, 1), Rat(299, 2)}

\* The delays, in seconds, when the configuration file does not set them
\* (the fallbacks of config.getint).
KEYWORD_BATCH_DELAY == 10
FULL_CYCLE_DELAY == 60

(***************************************************************************)
(* Price texts.  A text is a sequence of tokens; a token is a maximal run  *)
(* of [0-9,] ("num" with its value once the commas are removed, or         *)
(* "commas" when the run holds no digit), the word yen in any case, one of *)
(* the currency symbols, white space, or anything else.  No two runs of    *)
(* [0-9,] are adjacent.                                                    *)
(***************************************************************************)
Tok(k, v) == [k |-> k, v |-> v]
IsRun(t) == t.k \in {"num", "commas"}
IsSymbol(t) == t.k \in {"yensign", "usdollar", "dollar"}

\* The first index >= i of text that is not white space (Len+1 if none).
RECURSIVE SkipSpace(_, _)
SkipSpace(text, i) ==
    IF i > Len(text) THEN i
    ELSE IF text[i].k = "sp" THEN SkipSpace(text, i + 1) ELSE i

\* re.search(r'([\d,]+)\s*yen', text, re.IGNORECASE): the leftmost run that
\* is followed by optional white space and the word yen; 0 if there is none.
YenMatch(text) ==
    LET hits == {i \in 1..Len(text) :
                    /\ IsRun(text[i])
                    /\ SkipSpace(text, i + 1) <= Len(text)
                    /\ text[SkipSpace(text, i + 1)].k = "yen"}
    IN IF hits = {} THEN 0 ELSE CHOOSE i \in hits : \A j \in hits : i <= j

\* re.search(r'(¥|US\$|\$)\s*([\d,]+)', text): the leftmost symbol followed by
\* optional white space and a run; 0 if there is none.
SymbolMatch(text) ==
    LET hits == {i \in 1..Len(text) :
                    /\ IsSymbol(text[i])
                    /\ SkipSpace(text, i + 1) <= Len(text)
                    /\ IsRun(text[SkipSpace(text, i + 1)])}
    IN IF hits = {} THEN 0 ELSE CHOOSE i \in hits : \A j \in hits : i <= j

\* f"{n:,}".replace(",", "."): the groups of three digits, most significant
\* first, that the separator "." joins.
RECURSIVE Groups(_)
Groups(n) == IF n < 1000 THEN <<n>> ELSE Groups(n \div 1000) \o <<n % 1000>>

FormatYen(n) == [symbol |-> "yensign", sep |-> ".", groups |-> Groups(n)]

\* The rate is a Python float: the double nearest to the decimal n/d that
\* the rate service gave, which is n/d + k / (d * 2^p).  k is 0 for the
\* rates that a double holds exactly.
DoubleError(r) ==
    IF r = Rat(14001, 100) THEN [k |-> 0 - 32, p |-> 45] ELSE [k |-> 0, p |-> 45]

\* The largest e >= from with 2^e < n.
RECURSIVE ExponentBelow(_, _)
ExponentBelow(n, from) ==
    IF 2 ^ (from + 1) < n THEN ExponentBelow(n, from + 1) ELSE from

\* int(amount_int * rate) for an amount >= 0 below Huge: the product of the
\* two doubles, rounded to the nearest double (53 bits, ties to even), then
\* truncated.  The rounding matters only where amount * n/d is a whole number
\* q and the double of the rate lies below n/d: the product lies below q by
\* amount * |k| / (d * 2^p), and it is rounded to q when that is at most
\* half the distance 2^(e-52) of the doubles below q (2^e < q <= 2^(e+1)),
\* and to a double below q, which int() takes to q - 1, when it is more.
DollarsToYen(amount_int, r) ==
    LET q == (amount_int * r.n) \div r.d
        rem == (amount_int * r.n) % r.d
        err == DoubleError(r)
    IN IF rem # 0 \/ err.k >= 0 \/ q = 0 THEN q
       ELSE IF amount_int * (0 - err.k) * 2 ^ (53 - err.p)
                   > r.d * 2 ^ ExponentBelow(q, 0)
            THEN q - 1
            ELSE q

\* amount_int * rate turns the integer into a float first, and raises an
\* OverflowError for an integer above the largest float (about 1.8e308).
\* Huge stands for the value of a run of more digits than that; every other
\* amount of the model is below it.
Huge == 1000000
Overflows(amount_int) == amount_int >= Huge

\* The result of convert_price_to_yen: the two outputs, or raised = TRUE.
NoPrice == [formatted |-> None, numeric |-> None, raised |-> FALSE]
Price(n) == [formatted |-> Some(FormatYen(n)), numeric |-> Some(n), raised |-> FALSE]
PriceRaised == [formatted |-> None, numeric |-> None, raised |-> TRUE]

convert_price_to_yen(text, r) ==
    LET y == YenMatch(text)
        s == SymbolMatch(text)
    IN IF y # 0
       THEN IF text[y].k = "num" THEN Price(text[y].v) ELSE NoPrice
       ELSE IF s = 0 THEN NoPrice
       ELSE LET run == text[SkipSpace(text, s + 1)]
            IN IF run.k # "num" THEN NoPrice
               ELSE IF text[s].k \in {"usdollar", "dollar"}
                    THEN IF Overflows(run.v) THEN PriceRaised
                         ELSE Price(DollarsToYen(run.v, r))
                    ELSE Price(run.v)


(***************************************************************************)
(* URLs.  A URL string is its origin ("" for a relative reference) and the *)
(* segments of its path; the empty string has neither.                     *)
(***************************************************************************)
Url(origin, path) == [origin |-> origin, path |-> path]
EmptyStr == Url("", <<>>)
BUYEE == "https://buyee.jp"

StartsWithHttp(u) == u.origin # ""

\* urljoin('https://buyee.jp', u) for a reference u that does not start
\* with http: the path of u on the origin of the base (the base itself for
\* the empty reference).
urljoin(base, u) == IF u.origin # "" THEN u ELSE Url(base, u.path)

\* path.replace('/undefined/', '/'): occurrences are replaced left to right
\* and do not overlap, so the segment after a removed one is kept as it is.
RECURSIVE ReplaceUndefined(_)
ReplaceUndefined(segs) ==
    IF Len(segs) < 2 THEN segs
    ELSE IF segs[1] = "undefined"
         THEN <<segs[2]>> \o ReplaceUndefined(SubSeq(segs, 3, Len(segs)))
         ELSE <<segs[1]>> \o ReplaceUndefined(Tail(segs))

(***************************************************************************)
(* Titles.  A title is the original text and, when the translation was     *)
(* used, the English text that f"{title_en} ({title})" puts before it.     *)
(***************************************************************************)
Titles == {"Bag", "BAG", "Cap"}

\* str.lower() on the titles of the model.
Lower(s) ==
    CASE s = "Bag" -> "bag"
      [] s = "BAG" -> "bag"
      [] s = "Cap" -> "cap"
      [] OTHER -> s

\* translator.translate(title).text on success.
English(s) ==
    CASE Lower(s) = "bag" -> "handbag"
      [] OTHER -> "hat"

\* tr is what the translation call did: "error" (it raised), "same" (no
\* usable text, or the text of the title itself), "text" (another text).
translate_title_with_fallback(title, tr) ==
    IF tr = "text" THEN [en |-> English(title), ja |-> title]
    ELSE [en |-> "", ja |-> title]

LowerTitle(t) == [en |-> Lower(t.en), ja |-> Lower(t.ja)]

\* hashlib.md5((title.lower() + image_url).encode()).hexdigest()
Signature(title, image_url) == [title |-> LowerTitle(title), image |-> image_url]

(***************************************************************************)
(* Item elements of a result page, and the first loop of fetch_items that  *)
(* turns each into an item (or skips it).                                  *)
(***************************************************************************)
Element(href, title, tr, price, src) ==
    [href |-> href, title |-> title, tr |-> tr, price |-> price, src |-> src]

\* <<>> when the element is skipped, else <<item>>.
ExtractItem(el) ==
    IF el.href = EmptyStr THEN <<>>
    ELSE LET item_url == IF StartsWithHttp(el.href) THEN el.href
                         ELSE urljoin(BUYEE, Url("", ReplaceUndefined(el.href.path)))
             image_url == IF StartsWithHttp(el.src) THEN el.src
                          ELSE urljoin(BUYEE, el.src)
         IN << [title |-> translate_title_with_fallback(el.title, el.tr),
                price |-> el.price,
                url |-> item_url,
                image_url |-> image_url] >>

(***************************************************************************)
(* The seen-item store: a Python dict, which keeps its keys in the order   *)
(* of their first insertion; here the sequence of its entries.             *)
(***************************************************************************)
Entry(sig, price, timestamp) == [sig |-> sig, price |-> price, timestamp |-> timestamp]

Keys(store) == {store[i].sig : i \in 1..Len(store)}
KeySeq(store) == [i \in 1..Len(store) |-> store[i].sig]
IndexOf(store, sig) == CHOOSE i \in 1..Len(store) : store[i].sig = sig
Get(store, sig) == store[IndexOf(store, sig)]

\* Python truth of a value the model holds as an Optional number.
Truthy(opt) == opt # None /\ opt[1] # 0

\* Variants of ProcessItem with one slip each, for the checks below: the
\* test that decides the overwrite (variant "le": <=, variant "ne": !=), a
\* new item that is reported but not stored ("noinsert"), an overwrite that
\* deletes the key and inserts it again, at the end ("reinsert"), a cheaper
\* item that is reported while its entry is left as it was ("nooverwrite").
ProcessItemVariant(store, item, r, timestamp, variant) ==
    LET p == convert_price_to_yen(item.price, r)
        sig == Signature(item.title, item.image_url)
        out == <<item.title, item.url, item.image_url, p.formatted[1], timestamp>>
        entry == Entry(sig, p.numeric[1], timestamp)
        old == Get(store, sig).price
        overwrite == CASE variant = "le" -> p.numeric[1] <= old
                       [] variant = "ne" -> p.numeric[1] # old
                       [] OTHER -> p.numeric[1] < old
    IN IF p.raised
       THEN [store |-> store, out |-> <<>>, branch |-> "raised"]
       ELSE IF p.formatted = None \/ ~Truthy(p.numeric)
       THEN [store |-> store, out |-> <<>>, branch |-> "skip_price"]
       ELSE IF item.url = EmptyStr \/ item.image_url = EmptyStr
       THEN [store |-> store, out |-> <<>>, branch |-> "skip_url"]
       ELSE IF sig \notin Keys(store)
       THEN [store |-> IF variant = "noinsert" THEN store ELSE Append(store, entry),
             out |-> <<out>>, branch |-> "new"]
       ELSE IF overwrite
       THEN [store |-> CASE variant = "reinsert" ->
                                Append(SelectSeq(store, LAMBDA e : e.sig # sig), entry)
                         [] variant = "nooverwrite" -> store
                         [] OTHER -> [store EXCEPT ![IndexOf(store, sig)] = entry],
             out |-> <<out>>, branch |-> "cheaper"]
       ELSE [store |-> store, out |-> <<>>, branch |-> "unchanged"]

ProcessItemLe(store, item, r, timestamp) ==
    ProcessItemVariant(store, item, r, timestamp, "le")
ProcessItemNe(store, item, r, timestamp) ==
    ProcessItemVariant(store, item, r, timestamp, "ne")
ProcessItemNoInsert(store, item, r, timestamp) ==
    ProcessItemVariant(store, item, r, timestamp, "noinsert")
ProcessItemReinsert(store, item, r, timestamp) ==
    ProcessItemVariant(store, item, r, timestamp, "reinsert")
ProcessItemNoOverwrite(store, item, r, timestamp) ==
    ProcessItemVariant(store, item, r, timestamp, "nooverwrite")

\* One pass of the second loop of fetch_items: the store after the item,
\* what was appended to new_items, and the branch taken ("raised": the
\* handler of the pass caught an exception).
ProcessItem(store, item, r, timestamp) ==
    LET p == convert_price_to_yen(item.price, r)
        sig == Signature(item.title, item.image_url)
        out == <<item.title, item.url, item.image_url, p.formatted[1], timestamp>>
    IN IF p.raised
       THEN [store |-> store, out |-> <<>>, branch |-> "raised"]
       ELSE IF p.formatted = None \/ ~Truthy(p.numeric)
       THEN [store |-> store, out |-> <<>>, branch |-> "skip_price"]
       ELSE IF item.url = EmptyStr \/ item.image_url = EmptyStr
       THEN [store |-> store, out |-> <<>>, branch |-> "skip_url"]
       ELSE IF sig \notin Keys(store)
       THEN [store |-> Append(store, Entry(sig, p.numeric[1], timestamp)),
             out |-> <<out>>, branch |-> "new"]
       ELSE IF p.numeric[1] < Get(store, sig).price
       THEN [store |-> [store EXCEPT ![IndexOf(store, sig)] =
                            Entry(sig, p.numeric[1], timestamp)],
             out |-> <<out>>, branch |-> "cheaper"]
       ELSE [store |-> store, out |-> <<>>, branch |-> "unchanged"]

\* list(seen_items.items())[-MAX_SEEN_ITEMS:], a Python slice [k:] with
\* k = -MAX_SEEN_ITEMS: a negative k counts from the end, k >= 0 from the
\* start.
SliceFrom(s, k) ==
    LET start == IF k < 0 THEN Max(Len(s) + k, 0) ELSE Min(k, Len(s))
    IN SubSeq(s, start + 1, Len(s))

Trimmed(store, max_seen) == SliceFrom(store, 0 - max_seen)

(***************************************************************************)
(* The exchange rate.                                                      *)
(***************************************************************************)
EXCHANGE_RATE_CACHE_DURATION == 3600

\* What the request of get_usd_to_jpy_rate can do: answer with a rate, fail
\* with a requests RequestException (network, timeout, HTTP status), fail
\* with a KeyError or TypeError on the answer's shape, or fail with another
\* exception (float() of a text that is no number).
LiveOutcomes ==
    {[kind |-> "ok", rate |-> r] : r \in LiveRates}
        \cup {[kind |-> k, rate |-> DEFAULT_RATE] :
                 k \in {"request_error", "key_error", "value_error"}}

\* A variant of get_usd_to_jpy_rate whose two handlers return different
\* defaults, for the checks below.
get_usd_to_jpy_rate_defaults(live) ==
    CASE live.kind = "ok" -> [raised |-> FALSE, rate |-> live.rate]
      [] live.kind = "request_error" -> [raised |-> FALSE, rate |-> DEFAULT_RATE]
      [] live.kind = "key_error" -> [raised |-> FALSE, rate |-> Rat(150, 1)]
      [] OTHER -> [raised |-> TRUE, rate |-> DEFAULT_RATE]

\* get_usd_to_jpy_rate: the rate returned, or raised = TRUE.
get_usd_to_jpy_rate(live) ==
    CASE live.kind = "ok" -> [raised |-> FALSE, rate |-> live.rate]
      [] live.kind \in {"request_error", "key_error"} ->
             [raised |-> FALSE, rate |-> DEFAULT_RATE]
      [] OTHER -> [raised |-> TRUE, rate |-> DEFAULT_RATE]

\* A variant of get_exchange_rate_with_fallback that still trusts a cache
\* whose age is exactly the cache duration, for the checks below.
get_exchange_rate_with_fallback_le(cached, last, now, live) ==
    IF cached # None /\ last # None
          /\ now - last[1] <= EXCHANGE_RATE_CACHE_DURATION
    THEN [ret |-> cached[1], cached |-> cached, last |-> last, asked |-> FALSE]
    ELSE LET got == get_usd_to_jpy_rate(live)
         IN IF ~got.raised
            THEN [ret |-> got.rate, cached |-> Some(got.rate),
                  last |-> Some(now), asked |-> TRUE]
            ELSE IF cached # None
            THEN [ret |-> cached[1], cached |-> cached, last |-> last, asked |-> TRUE]
            ELSE [ret |-> DEFAULT_RATE, cached |-> cached, last |-> last, asked |-> TRUE]

\* get_exchange_rate_with_fallback at time now with the cache (cached, last):
\* the rate returned, the cache afterwards and whether the live rate was asked.
get_exchange_rate_with_fallback(cached, last, now, live) ==
    IF cached # None /\ last # None
          /\ now - last[1] < EXCHANGE_RATE_CACHE_DURATION
    THEN [ret |-> cached[1], cached |-> cached, last |-> last, asked |-> FALSE]
    ELSE LET got == get_usd_to_jpy_rate(live)
         IN IF ~got.raised
            THEN [ret |-> got.rate, cached |-> Some(got.rate),
                  last |-> Some(now), asked |-> TRUE]
            ELSE IF cached # None
            THEN [ret |-> cached[1], cached |-> cached, last |-> last, asked |-> TRUE]
            ELSE [ret |-> DEFAULT_RATE, cached |-> cached, last |-> last, asked |-> TRUE]

(***************************************************************************)
(* fetch_with_retry.  outs[i] is what the i-th request does: "ok" or       *)
(* "request_error".  The result is "ok" (a response), "raised" (the last   *)
(* RequestException) or "none" (the loop ended without a request); waits   *)
(* are the arguments of time.sleep in order.                               *)
(***************************************************************************)
RetryWait(delay, attempt) == delay * (attempt + 1)

\* A variant of fetch_with_retry that raises on the first failed request,
\* for the checks below.
fetch_with_retry_once(outs, max_retries, delay) ==
    IF max_retries <= 0
    THEN [status |-> "none", attempts |-> 0, waits |-> <<>>]
    ELSE IF outs[1] = "ok"
    THEN [status |-> "ok", attempts |-> 1, waits |-> <<>>]
    ELSE [status |-> "raised", attempts |-> 1, waits |-> <<>>]

RECURSIVE RetryFrom(_, _, _, _, _)
RetryFrom(outs, max_retries, delay, attempt, waits) ==
    IF attempt >= max_retries
    THEN [status |-> "none", attempts |-> attempt, waits |-> waits]
    ELSE IF outs[attempt + 1] = "ok"
    THEN [status |-> "ok", attempts |-> attempt + 1, waits |-> waits]
    ELSE IF attempt = max_retries - 1
    THEN [status |-> "raised", attempts |-> attempt + 1, waits |-> waits]
    ELSE RetryFrom(outs, max_retries, delay, attempt + 1,
                   Append(waits, RetryWait(delay, attempt)))

fetch_with_retry(outs, max_retries, delay) ==
    RetryFrom(outs, max_retries, delay, 0, <<>>)

(***************************************************************************)
(* The seen-item file.                                                     *)
(***************************************************************************)
MissingFile == [kind |-> "missing", data |-> <<>>]
GarbageFile == [kind |-> "garbage", data |-> <<>>]
MapFile(store) == [kind |-> "map", data |-> store]

\* Other files: one that open() or read() fails on, and JSON texts other
\* than an object of entries: a number, true, false or null ("scalar"), a
\* string, a list, an object whose values are no entries.
UnreadableFile == [kind |-> "unreadable", data |-> <<>>]
ScalarFile == [kind |-> "scalar", data |-> <<>>]
StringFile == [kind |-> "string", data |-> "abc"]
ListFile == [kind |-> "list", data |-> <<1, 2>>]
BadMapFile == [kind |-> "badmap", data |-> <<[sig |-> "abc", value |-> 5]>>]

\* A Python value that load_seen_items returns.
Loaded(type, data) == [type |-> type, data |-> data]

\* load_seen_items: what json.load gave, whatever its type, when the file
\* exists, json.load succeeds and len() of the value does too (the log line
\* of the success takes the len(); a scalar has none, and the TypeError is
\* caught as every other exception is); the empty dict otherwise.
load_seen_items(file) ==
    CASE file.kind \in {"map", "badmap"} -> Loaded("dict", file.data)
      [] file.kind = "list" -> Loaded("list", file.data)
      [] file.kind = "string" -> Loaded("str", file.data)
      [] OTHER -> Loaded("dict", <<>>)

\* save_seen_items: the file afterwards.  The write can succeed, fail before
\* the file is opened, or fail after open(..., 'w') has emptied it.
SaveOutcomes == {"ok", "open_failed", "write_failed"}

save_seen_items(store, max_seen, file, outcome) ==
    CASE outcome = "ok" -> MapFile(Trimmed(store, max_seen))
      [] outcome = "open_failed" -> file
      [] OTHER -> GarbageFile

\* A variant of StoreAfterSave in which the save trims the store it is
\* given, for the checks below.
StoreAfterSaveTrimmed(store, max_seen) == Trimmed(store, max_seen)

\* save_seen_items: the dict it was given, afterwards.  The trimmed items go
\* into a dict of their own, and json.dump reads it; the argument is as it
\* was, whatever the write did.
StoreAfterSave(store, max_seen) == store

(***************************************************************************)
(* The inputs of the model.                                                *)
(***************************************************************************)
KEYWORDS == <<"kw1", "kw2">>

Yen(n) == <<Tok("yensign", 0), Tok("num", n)>>
Dollar(n) == <<Tok("dollar", 0), Tok("num", n)>>
NoPriceText == <<Tok("other", 0)>>

Href1 == Url("", <<"item", "m1">>)
HrefUndefined == Url("", <<"undefined", "item", "m2">>)
Img1 == Url("", <<"img", "1.jpg">>)
ImgAbs == Url("https://cdn.example", <<"2.jpg">>)

Elements ==
    { Element(Href1, "Bag", "error", Yen(100), Img1),
      Element(Href1, "Bag", "error", Yen(200), Img1),
      Element(Href1, "BAG", "same", Yen(100), Img1),
      Element(Href1, "Bag", "error", Yen(0), Img1),
      Element(HrefUndefined, "Cap", "error", Dollar(1), ImgAbs),
      Element(Href1, "Cap", "error", NoPriceText, ImgAbs),
      Element(Href1, "Cap", "error", Dollar(Huge), ImgAbs),
      Element(Href1, "Bag", "text", Yen(100), Img1),
      Element(EmptyStr, "Bag", "error", Yen(100), Img1),
      Element(Href1, "Bag", "error", Yen(100), EmptyStr) }

\* A seen-item file that an earlier run left behind.
OldStore ==
    << Entry(Signature(translate_title_with_fallback("Bag", "error"),
                       urljoin(BUYEE, Img1)), 200, 0) >>
InitialFiles == {MissingFile, GarbageFile, MapFile(OldStore)}

\* What the requests of one fetch_with_retry call do: k failures, then
\* successes (what follows the first success is never requested).
RetryOuts(n) ==
    {[i \in 1..n |-> IF i <= k THEN "request_error" ELSE "ok"] : k \in 0..n}

\* What the rate request does when main starts.
StartupOutcomes ==
    {live \in LiveOutcomes : live.kind = "ok" => live.rate = Rat(299, 2)}

(***************************************************************************)
(* The state.                                                              *)
(***************************************************************************)
VARIABLES
    pc,                         \* where main is
    fetches,                    \* fetch_items calls since the start
    kwi,                        \* index of the keyword being handled
    remaining,                  \* item elements of the page not yet handled
    handled,                    \* item elements handled since the start
    seen_items,                 \* the in-memory store
    new_items,                  \* new_items of the running fetch_items call
    seen_file,                  \* SEEN_FILE
    MAX_SEEN_ITEMS,             \* the configured limit
    rate,                       \* main's rate, an Optional
    clock,                      \* the wall clock, in seconds
    cached_exchange_rate,       \* an Optional rate
    last_exchange_rate_update,  \* an Optional time
    cur,                        \* history: the element handled last in the
                                \* running fetch_items call
    repeated,                   \* history: it was also the one before it
    lowest,                     \* history: per stored signature, the lowest
                                \* amount parsed for it since it was stored
    inserted,                   \* history: signatures in order of insertion
    cheapened,                  \* history: signatures overwritten as cheaper
    last_save,                  \* history: outcome of the save just done
    rate_call,                  \* history: the last rate call of RateSpec
    retry_in,                   \* RetrySpec: the arguments of the call
    retry_out,                  \* RetrySpec: its result, an Optional
    parse_in,                   \* FnSpec: the arguments of the call of
                                \* convert_price_to_yen
    parse_out,                  \* FnSpec: its result, an Optional
    load_out,                   \* FnSpec: the result of load_seen_items on
                                \* seen_file, an Optional
    fetch_log,                  \* history: the two fetch_with_retry calls of
                                \* the fetch_items call just begun
    calls,                      \* history: the keywords fetch_items was
                                \* called with in the running cycle
    fetch_time,                 \* history: the time of the last fetch_items
                                \* call of the running cycle, an Optional
    troubles,                   \* history: the keywords of the running cycle
                                \* for which fetch_items raised
    batch_failed,               \* history: a record of the running batch
                                \* gave no price or raised
    unwind,                     \* history: the calls main made after an
                                \* interrupt, in order
    evicted,                    \* history: the signatures of the store that
                                \* the last save left out of the file
    daily_counts,               \* per keyword, the count (0: no key)
    returned,                   \* history: per keyword, the items fetch_items
                                \* returned since the last daily summary
    summary,                    \* history: the counts that the daily summary
                                \* of the cycle just ended read, an Optional
    sent,                       \* history: the photos sent for the batch
                                \* just delivered, in order
    rate_time,                  \* history: the time of the call of
                                \* get_exchange_rate_with_fallback that gave
                                \* main its rate, an Optional
    catalogue,                  \* the item elements the site can serve
    budget,                     \* the fetch_items calls the run can make
    full_cycle_delay            \* FULL_CYCLE_DELAY as configured

mainVars == <<pc, fetches, kwi, remaining, handled, seen_items, new_items, seen_file,
              MAX_SEEN_ITEMS, rate, cur, repeated, lowest, inserted, cheapened,
              last_save>>
rateVars == <<cached_exchange_rate, last_exchange_rate_update>>
harnessVars == <<rate_call, retry_in, retry_out, parse_in, parse_out, load_out>>
logVars == <<fetch_log, calls, fetch_time, troubles, batch_failed, unwind,
             evicted, rate_time>>
countVars == <<daily_counts, returned, summary, sent>>
worldVars == <<catalogue, budget, full_cycle_delay>>
vars == <<mainVars, clock, rateVars, harnessVars, logVars, countVars, worldVars>>

NoRetry == [max_retries |-> 0, delay |-> 0, outs |-> <<>>]

\* defaultdict(int) without a key.
EmptyCounts == [k \in {KEYWORDS[i] : i \in 1..Len(KEYWORDS)} |-> 0]

NoParse == [text |-> <<>>, rate |-> DEFAULT_RATE]

\* The variables of FnSpec where no function of FnSpec is called.
FnIdle ==
    /\ parse_in = NoParse
    /\ parse_out = None
    /\ load_out = None

\* The history variables of main before main has done anything.
LogIdle ==
    /\ daily_counts = EmptyCounts
    /\ returned = EmptyCounts
    /\ summary = None
    /\ sent = <<>>
    /\ fetch_log = None
    /\ calls = <<>>
    /\ fetch_time = None
    /\ troubles = {}
    /\ batch_failed = FALSE
    /\ unwind = <<>>
    /\ evicted = {}
    /\ rate_time = None

Init ==
    /\ pc = "start"
    /\ fetches = 0
    /\ kwi = 1
    /\ remaining = 0
    /\ handled = 0
    /\ seen_items = <<>>
    /\ new_items = <<>>
    /\ seen_file \in InitialFiles
    /\ MAX_SEEN_ITEMS \in 0..MaxSeenCfg
    /\ rate = None
    /\ clock = 0
    /\ cached_exchange_rate = None
    /\ last_exchange_rate_update = None
    /\ cur = None
    /\ repeated = FALSE
    /\ lowest = <<>>
    /\ inserted = <<>>
    /\ cheapened = {}
    /\ last_save = "none"
    /\ rate_call = None
    /\ retry_in = NoRetry
    /\ retry_out = None
    /\ FnIdle
    /\ LogIdle
    /\ catalogue = Elements
    /\ budget = Len(KEYWORDS)
    /\ full_cycle_delay = FULL_CYCLE_DELAY

(***************************************************************************)
(* main.                                                                   *)
(***************************************************************************)
\* main up to the loop: load_seen_items and the one rate lookup.
Startup ==
    /\ pc = "start"
    /\ \E live \in StartupOutcomes :
          LET g == get_exchange_rate_with_fallback(
                       cached_exchange_rate, last_exchange_rate_update, clock, live)
              loaded == load_seen_items(seen_file).data
          IN /\ seen_items' = loaded
             /\ lowest' = [i \in 1..Len(loaded) |-> loaded[i].price]
             /\ inserted' = KeySeq(loaded)
             /\ rate' = Some(g.ret)
             /\ cached_exchange_rate' = g.cached
             /\ last_exchange_rate_update' = g.last
    /\ rate_time' = Some(clock)
    /\ pc' = "keyword"
    /\ UNCHANGED <<fetches, kwi, remaining, handled, new_items, seen_file,
                   MAX_SEEN_ITEMS, cur, repeated, cheapened, last_save, clock,
                   harnessVars, fetch_log, calls, fetch_time, troubles,
                   batch_failed, unwind, evicted, countVars, worldVars>>

\* fetch_items up to the item loop: the number of item elements found, 0
\* when a fetch gave up or the page lacks the iframe, its URL or any item.
ElementsFound(parent_outs, page, iframe_outs, n) ==
    IF fetch_with_retry(parent_outs, 3, 2).status # "ok" THEN 0
    ELSE IF page # "iframe" THEN 0
    ELSE IF fetch_with_retry(iframe_outs, 3, 2).status # "ok" THEN 0
    ELSE n

\* What the two fetch_with_retry calls of one fetch_items call did: the
\* requests and the result of the parent fetch and, when fetch_items got as
\* far, of the iframe fetch.
FetchLog(parent_outs, page, iframe_outs) ==
    LET parent == fetch_with_retry(parent_outs, 3, 2)
        iframe == fetch_with_retry(iframe_outs, 3, 2)
    IN [parent |-> Some([outs |-> parent_outs, res |-> parent]),
        iframe |-> IF parent.status = "ok" /\ page = "iframe"
                   THEN Some([outs |-> iframe_outs, res |-> iframe])
                   ELSE None]

\* A fetch_with_retry call of fetch_items ended without a response.
GaveUp(log) ==
    \/ log.parent[1].res.status # "ok"
    \/ log.iframe # None /\ log.iframe[1].res.status # "ok"

\* fetch_items raises when parsing the parent page raises (BeautifulSoup on
\* markup it rejects or that nests too deep): nothing in fetch_items catches
\* that.
FetchRaises(parent_outs, page) ==
    fetch_with_retry(parent_outs, 3, 2).status = "ok" /\ page = "raises"

\* The keyword loop of main after keyword number i: the next keyword, or the
\* save that ends the cycle.
AfterKeyword(i) ==
    IF i < Len(KEYWORDS) THEN [kwi |-> i + 1, pc |-> "keyword"]
    ELSE [kwi |-> 1, pc |-> "save"]

\* A variant of AfterException that leaves the keyword loop, for the checks
\* below.
AfterExceptionBreak(i) == [kwi |-> 1, pc |-> "save"]

\* The handler of main for an exception of the keyword body: continue.
AfterException(i) == AfterKeyword(i)

\* main calls fetch_items for the keyword at hand; fetch_items up to its
\* item loop.  When fetch_items raises, main's handler goes on to the next
\* keyword at once.
BeginFetch ==
    /\ pc = "keyword"
    /\ fetches < budget
    /\ fetches' = fetches + 1
    /\ calls' = Append(calls, KEYWORDS[kwi])
    /\ fetch_time' = Some(clock)
    /\ \E o \in { [k |-> ElementsFound(parent_outs, page, iframe_outs, n),
                    raised |-> FetchRaises(parent_outs, page),
                    log |-> FetchLog(parent_outs, page, iframe_outs)] :
                     parent_outs \in RetryOuts(3), iframe_outs \in RetryOuts(3),
                     page \in {"no_iframe", "no_iframe_url", "iframe", "raises"},
                     n \in 0..Min(MaxBatch, MaxElements - handled) } :
          /\ remaining' = o.k
          /\ fetch_log' = Some(o.log)
          /\ troubles' = troubles \cup (IF o.raised THEN {KEYWORDS[kwi]} ELSE {})
          /\ IF o.raised
             THEN pc' = AfterException(kwi).pc /\ kwi' = AfterException(kwi).kwi
             ELSE pc' = (IF o.k = 0 THEN "deliver" ELSE "process") /\ kwi' = kwi
    /\ new_items' = <<>>
    /\ last_save' = "none"
    /\ batch_failed' = FALSE
    /\ sent' = <<>>
    /\ cur' = None
    /\ repeated' = FALSE
    /\ UNCHANGED <<handled, seen_items, seen_file, MAX_SEEN_ITEMS,
                   rate, lowest, inserted, cheapened, clock,
                   rateVars, harnessVars, unwind, evicted, rate_time,
                   daily_counts, returned, summary, worldVars>>

\* What handling element el does to the store and to new_items.
HandleElement(store, el, r, timestamp) ==
    LET ex == ExtractItem(el)
    IN IF ex = <<>>
       THEN [store |-> store, out |-> <<>>, branch |-> "skip_element"]
       ELSE ProcessItem(store, ex[1], r, timestamp)

\* The history of the lowest parsed amount, after element el.
LowestAfter(low, store, store2, el, r) ==
    LET ex == ExtractItem(el)
        p == convert_price_to_yen(ex[1].price, r)
        sig == Signature(ex[1].title, ex[1].image_url)
    IN IF ex = <<>> \/ p.numeric = None \/ sig \notin Keys(store2) THEN low
       ELSE IF sig \notin Keys(store) THEN Append(low, p.numeric[1])
       ELSE [low EXCEPT ![IndexOf(store, sig)] = Min(@, p.numeric[1])]

\* A variant of AfterItem in which an exception of one pass ends the loop,
\* for the checks below.
AfterItemAbort(left, branch) ==
    IF left = 1 \/ branch = "raised" THEN "deliver" ELSE "process"

\* The item loops of fetch_items after one item element, left being the
\* elements not handled before it: every pass ends in the next pass (a skip
\* and the exception handler both continue), the last in the return.
AfterItem(left, branch) == IF left = 1 THEN "deliver" ELSE "process"

\* One item element of the page: extracted, then checked against the store.
ProcessElement ==
    /\ pc = "process"
    /\ \E el \in catalogue :
          LET h == HandleElement(seen_items, el, rate[1], clock)
          IN /\ seen_items' = h.store
             /\ new_items' = new_items \o h.out
             /\ cur' = Some(el)
             /\ batch_failed' = (batch_failed \/ h.branch = "raised"
                                    \/ (h.branch = "skip_price"
                                        /\ convert_price_to_yen(el.price, rate[1]) = NoPrice))
             /\ pc' = AfterItem(remaining, h.branch)
             /\ returned' = IF AfterItem(remaining, h.branch) = "deliver"
                            THEN [returned EXCEPT ![KEYWORDS[kwi]] =
                                     @ + Len(new_items \o h.out)]
                            ELSE returned
             /\ repeated' = (cur = Some(el))
             /\ lowest' = LowestAfter(lowest, seen_items, h.store, el, rate[1])
             /\ inserted' = inserted \o
                   SelectSeq(KeySeq(h.store), LAMBDA k : k \notin Keys(seen_items))
             /\ cheapened' = cheapened \cup
                   {k \in Keys(seen_items) : Get(h.store, k) # Get(seen_items, k)}
    /\ remaining' = remaining - 1
    /\ handled' = handled + 1
    /\ fetch_log' = None
    /\ UNCHANGED <<fetches, kwi, seen_file, MAX_SEEN_ITEMS, rate, last_save, clock,
                   rateVars, harnessVars, calls, fetch_time, troubles, unwind,
                   evicted, rate_time, daily_counts, summary, sent, worldVars>>

\* A variant of Reversed that keeps the order, for the checks below.
NotReversed(items) == items

\* items.reverse()
Reversed(items) == [i \in 1..Len(items) |-> items[Len(items) + 1 - i]]

\* A variant of CountAfter that counts a batch as one, for the checks below.
CountAfterOne(counts, keyword, items) ==
    IF items = <<>> THEN counts ELSE [counts EXCEPT ![keyword] = @ + 1]

\* daily_counts[kw_original] += len(items), done for a batch that is not
\* empty.
CountAfter(counts, keyword, items) ==
    IF items = <<>> THEN counts ELSE [counts EXCEPT ![keyword] = @ + Len(items)]

\* main after fetch_items returned: for a batch that is not empty the count
\* and one photo for each item, the batch reversed (a send that fails is
\* caught in send_telegram_photo); then the sleep between keywords, and on
\* to the next keyword, or to the save.
Deliver ==
    /\ pc = "deliver"
    /\ daily_counts' = CountAfter(daily_counts, KEYWORDS[kwi], new_items)
    /\ sent' = Reversed(new_items)
    /\ kwi' = AfterKeyword(kwi).kwi
    /\ pc' = AfterKeyword(kwi).pc
    /\ clock' = clock + KEYWORD_BATCH_DELAY
    /\ fetch_log' = None
    /\ batch_failed' = FALSE
    /\ cur' = None
    /\ repeated' = FALSE
    /\ UNCHANGED <<fetches, remaining, handled, seen_items, new_items, seen_file,
                   MAX_SEEN_ITEMS, rate, lowest, inserted,
                   cheapened, last_save, rateVars, harnessVars, calls, fetch_time,
                   troubles, unwind, evicted, rate_time, returned, summary,
                   worldVars>>

\* send_daily_summary: the counts it read into the message, and the counter
\* after daily_counts.clear().
send_daily_summary(counts) == [read |-> counts, counts |-> EmptyCounts]

\* The end of a cycle: save_seen_items, schedule.run_pending(), which runs
\* send_daily_summary when its time of day has come, then the sleep between
\* cycles.
SaveCycle ==
    /\ pc = "save"
    /\ \E due \in BOOLEAN :
          IF due
          THEN /\ summary' = Some(send_daily_summary(daily_counts).read)
               /\ daily_counts' = send_daily_summary(daily_counts).counts
               /\ returned' = EmptyCounts
          ELSE /\ summary' = None
               /\ UNCHANGED <<daily_counts, returned>>
    /\ \E outcome \in SaveOutcomes :
          /\ seen_file' = save_seen_items(seen_items, MAX_SEEN_ITEMS, seen_file, outcome)
          /\ last_save' = outcome
          /\ evicted' = CASE outcome = "ok" ->
                                Keys(seen_items) \ Keys(Trimmed(seen_items, MAX_SEEN_ITEMS))
                           [] outcome = "open_failed" -> evicted
                           [] OTHER -> {}
    /\ seen_items' = StoreAfterSave(seen_items, MAX_SEEN_ITEMS)
    /\ pc' = "keyword"
    /\ clock' = clock + full_cycle_delay
    /\ fetch_log' = None
    /\ calls' = <<>>
    /\ fetch_time' = None
    /\ troubles' = {}
    /\ UNCHANGED <<fetches, kwi, remaining, handled, new_items,
                   MAX_SEEN_ITEMS, rate, cur, repeated, lowest, inserted,
                   cheapened, rateVars, harnessVars, batch_failed, unwind,
                   rate_time, sent, worldVars>>

\* A KeyboardInterrupt anywhere in the loop of main: its handler logs, and
\* the finally clause sends the shutdown notification (a failure of the send
\* is caught).  Nothing saves the store.  main returns and the process ends;
\* the model keeps the store as it was at the interrupt and forgets the other
\* local variables of main and fetch_items.
Interrupt ==
    /\ pc \in {"keyword", "process", "deliver", "save"}
    /\ pc' = "stopped"
    /\ unwind' = <<"send_telegram_message">>
    /\ fetches' = 0
    /\ kwi' = 1
    /\ remaining' = 0
    /\ handled' = 0
    /\ new_items' = <<>>
    /\ rate' = None
    /\ cur' = None
    /\ repeated' = FALSE
    /\ last_save' = "none"
    /\ fetch_log' = None
    /\ calls' = <<>>
    /\ fetch_time' = None
    /\ troubles' = {}
    /\ batch_failed' = FALSE
    /\ summary' = None
    /\ sent' = <<>>
    /\ evicted' = {}
    /\ rate_time' = None
    /\ UNCHANGED <<seen_items, lowest, inserted, cheapened, seen_file,
                   MAX_SEEN_ITEMS, clock, rateVars, harnessVars, daily_counts,
                   returned, worldVars>>

Next == Startup \/ BeginFetch \/ ProcessElement \/ Deliver \/ SaveCycle \/ Interrupt

\* Spec: one cycle of main over every kind of item element.
Spec == Init /\ [][Next]_vars

\* LoopSpec: main through several cycles, over a site that serves two
\* listings (the title of one is translated at some times and not at
\* others) and a price beyond the float range, with a store limit of one
\* entry, so that a save leaves entries out, and configured to wait an hour
\* between two cycles.
LoopElements ==
    { Element(Href1, "Bag", "error", Yen(100), Img1),
      Element(Href1, "Bag", "text", Yen(100), Img1),
      Element(HrefUndefined, "Cap", "error", Dollar(1), ImgAbs),
      Element(Href1, "Cap", "error", Dollar(Huge), ImgAbs) }

LoopInit ==
    /\ pc = "start"
    /\ fetches = 0
    /\ kwi = 1
    /\ remaining = 0
    /\ handled = 0
    /\ seen_items = <<>>
    /\ new_items = <<>>
    /\ seen_file = MissingFile
    /\ MAX_SEEN_ITEMS = 1
    /\ rate = None
    /\ clock = 0
    /\ cached_exchange_rate = None
    /\ last_exchange_rate_update = None
    /\ cur = None
    /\ repeated = FALSE
    /\ lowest = <<>>
    /\ inserted = <<>>
    /\ cheapened = {}
    /\ last_save = "none"
    /\ rate_call = None
    /\ retry_in = NoRetry
    /\ retry_out = None
    /\ FnIdle
    /\ LogIdle
    /\ catalogue = LoopElements
    /\ budget = MaxFetches
    /\ full_cycle_delay = 3600

LoopSpec == LoopInit /\ [][Next]_vars

(***************************************************************************)
(* RateSpec: get_exchange_rate_with_fallback called again and again while  *)
(* time passes, each call with any outcome of the live request.            *)
(***************************************************************************)
MaxWaits == 4        \* the clock of RateSpec stops after about MaxWaits waits
RateWaits == {1799, 1801}

RateInit ==
    /\ pc = "rate"
    /\ fetches = 0
    /\ kwi = 1
    /\ remaining = 0
    /\ handled = 0
    /\ seen_items = <<>>
    /\ new_items = <<>>
    /\ seen_file = MissingFile
    /\ MAX_SEEN_ITEMS = 0
    /\ rate = None
    /\ clock = 0
    /\ cached_exchange_rate = None
    /\ last_exchange_rate_update = None
    /\ cur = None
    /\ repeated = FALSE
    /\ lowest = <<>>
    /\ inserted = <<>>
    /\ cheapened = {}
    /\ last_save = "none"
    /\ rate_call = None
    /\ retry_in = NoRetry
    /\ retry_out = None
    /\ FnIdle
    /\ LogIdle
    /\ catalogue = {}
    /\ budget = 0
    /\ full_cycle_delay = FULL_CYCLE_DELAY

RateCall ==
    /\ pc = "rate"
    /\ \E live \in LiveOutcomes :
          LET g == get_exchange_rate_with_fallback(
                       cached_exchange_rate, last_exchange_rate_update, clock, live)
          IN /\ cached_exchange_rate' = g.cached
             /\ last_exchange_rate_update' = g.last
             /\ rate_call' = Some([cached |-> cached_exchange_rate,
                                   last |-> last_exchange_rate_update,
                                   now |-> clock, live |-> live,
                                   ret |-> g.ret, asked |-> g.asked])
    /\ UNCHANGED <<mainVars, clock, retry_in, retry_out, parse_in, parse_out,
                   load_out, logVars, countVars, worldVars>>

RateWait ==
    /\ pc = "rate"
    /\ \E d \in RateWaits :
          /\ clock + d <= MaxWaits * 1801
          /\ clock' = clock + d
    /\ UNCHANGED <<mainVars, rateVars, harnessVars, logVars, countVars,
                   worldVars>>

RateNext == RateCall \/ RateWait

RateSpec == RateInit /\ [][RateNext]_vars

(***************************************************************************)
(* RetrySpec: one call of fetch_with_retry with any attempt count, any     *)
(* base delay and any outcome of each request.                             *)
(***************************************************************************)
MaxRetries == 4
MaxDelay == 3

RetryInit ==
    /\ pc = "retry"
    /\ fetches = 0
    /\ kwi = 1
    /\ remaining = 0
    /\ handled = 0
    /\ seen_items = <<>>
    /\ new_items = <<>>
    /\ seen_file = MissingFile
    /\ MAX_SEEN_ITEMS = 0
    /\ rate = None
    /\ clock = 0
    /\ cached_exchange_rate = None
    /\ last_exchange_rate_update = None
    /\ cur = None
    /\ repeated = FALSE
    /\ lowest = <<>>
    /\ inserted = <<>>
    /\ cheapened = {}
    /\ last_save = "none"
    /\ rate_call = None
    /\ \E m \in 0..MaxRetries, d \in 0..MaxDelay :
          \E outs \in [1..m -> {"ok", "request_error"}] :
             retry_in = [max_retries |-> m, delay |-> d, outs |-> outs]
    /\ retry_out = None
    /\ FnIdle
    /\ LogIdle
    /\ catalogue = {}
    /\ budget = 0
    /\ full_cycle_delay = FULL_CYCLE_DELAY

RetryCall ==
    /\ pc = "retry"
    /\ retry_out = None
    /\ retry_out' = Some(fetch_with_retry(retry_in.outs, retry_in.max_retries,
                                          retry_in.delay))
    /\ UNCHANGED <<mainVars, clock, rateVars, rate_call, retry_in, parse_in,
                   parse_out, load_out, logVars, countVars, worldVars>>

RetryNext == RetryCall

RetrySpec == RetryInit /\ [][RetryNext]_vars

(***************************************************************************)
(* FnSpec: one call of convert_price_to_yen on any short price text at any *)
(* rate, or one call of load_seen_items on any file.                       *)
(***************************************************************************)
MaxText == 4         \* tokens of a price text

\* The tokens of a price text: runs of digits and commas (5, 900, "1,200", a run
\* beyond the float range, a run of commas alone), the word yen, the
\* currency symbols, white space, another character.
Tokens ==
    {Tok("num", 5), Tok("num", 900), Tok("num", 1200), Tok("num", Huge),
     Tok("commas", 0),
     Tok("yen", 0), Tok("yensign", 0), Tok("usdollar", 0), Tok("dollar", 0),
     Tok("sp", 0), Tok("other", 0)}

\* The texts of at most n tokens; two runs of digits and commas never stand
\* next to each other (they would be one run).
RECURSIVE Texts(_)
Texts(n) ==
    IF n = 0 THEN {<<>>}
    ELSE Texts(n - 1) \cup
         {Append(t, k) : t \in {u \in Texts(n - 1) : Len(u) = n - 1},
                         k \in Tokens}

WellFormed(text) ==
    \A i \in 1..(Len(text) - 1) : ~(IsRun(text[i]) /\ IsRun(text[i + 1]))

\* Stores a file can hold: at most two entries of different signatures.
FileStores ==
    LET sigs == {Signature(translate_title_with_fallback(t, "error"),
                           urljoin(BUYEE, Img1)) : t \in {"Bag", "Cap"}}
        entries == {Entry(g, p, 0) : g \in sigs, p \in {100, 200}}
    IN {<<>>} \cup {<<e>> : e \in entries}
           \cup {<<p[1], p[2]>> :
                    p \in {q \in entries \X entries : q[1].sig # q[2].sig}}

AllFiles ==
    {MissingFile, GarbageFile, UnreadableFile, ScalarFile, StringFile, ListFile,
     BadMapFile} \cup {MapFile(st) : st \in FileStores}

\* The rates of the calls: those of the other specifications and 140.01,
\* which no double holds exactly.
FnRates == LiveRates \cup {DEFAULT_RATE, Rat(14001, 100)}

FnInit ==
    /\ fetches = 0
    /\ kwi = 1
    /\ remaining = 0
    /\ handled = 0
    /\ seen_items = <<>>
    /\ new_items = <<>>
    /\ MAX_SEEN_ITEMS = 0
    /\ rate = None
    /\ clock = 0
    /\ cached_exchange_rate = None
    /\ last_exchange_rate_update = None
    /\ cur = None
    /\ repeated = FALSE
    /\ lowest = <<>>
    /\ inserted = <<>>
    /\ cheapened = {}
    /\ last_save = "none"
    /\ rate_call = None
    /\ retry_in = NoRetry
    /\ retry_out = None
    /\ parse_out = None
    /\ load_out = None
    /\ LogIdle
    /\ catalogue = {}
    /\ budget = 0
    /\ full_cycle_delay = FULL_CYCLE_DELAY
    /\ \/ /\ pc = "parse"
          /\ seen_file = MissingFile
          /\ \E text \in {t \in Texts(MaxText) : WellFormed(t)} :
                \E r \in FnRates :
                   parse_in = [text |-> text, rate |-> r]
       \/ /\ pc = "load"
          /\ seen_file \in AllFiles
          /\ parse_in = NoParse

ParseCall ==
    /\ pc = "parse"
    /\ parse_out = None
    /\ parse_out' = Some(convert_price_to_yen(parse_in.text, parse_in.rate))
    /\ UNCHANGED <<mainVars, clock, rateVars, rate_call, retry_in, retry_out,
                   parse_in, load_out, logVars, countVars, worldVars>>

LoadCall ==
    /\ pc = "load"
    /\ load_out = None
    /\ load_out' = Some(load_seen_items(seen_file))
    /\ UNCHANGED <<mainVars, clock, rateVars, rate_call, retry_in, retry_out,
                   parse_in, parse_out, logVars, countVars, worldVars>>

FnNext == ParseCall \/ LoadCall

FnSpec == FnInit /\ [][FnNext]_vars

(***************************************************************************)
(* What the properties below say about one handled element.                *)
(***************************************************************************)
ItemOf(el) == ExtractItem(el)[1]
ParsedOf(el, r) == convert_price_to_yen(ItemOf(el).price, r)
AmountOf(el, r) == ParsedOf(el, r).numeric[1]
SigOf(el) == Signature(ItemOf(el).title, ItemOf(el).image_url)

\* The element gets as far as the store check of fetch_items.
ReachesStore(el, r) ==
    /\ ExtractItem(el) # <<>>
    /\ ParsedOf(el, r).formatted # None
    /\ ParsedOf(el, r).numeric # None
    /\ AmountOf(el, r) # 0
    /\ ItemOf(el).url # EmptyStr
    /\ ItemOf(el).image_url # EmptyStr

\* The step handles one element (the one in cur').
ProcessStep == pc = "process" /\ handled' = handled + 1

Stored(store, sig) == \E i \in 1..Len(store) : store[i].sig = sig
PriceIn(store, sig) == (CHOOSE e \in {store[i] : i \in 1..Len(store)} : e.sig = sig).price

\* C1: a record that reaches the store check is appended to new_items if and
\* only if its signature is not in the store (and then the entry signature ->
\* {price, timestamp} is inserted) or its amount is strictly lower than the
\* stored price (and then price and timestamp of that entry are overwritten);
\* otherwise nothing is appended.
C1_AppendedIffNewOrCheaper ==
    [][ (ProcessStep /\ ReachesStore(cur'[1], rate[1])) =>
          LET el == cur'[1]
              sig == SigOf(el)
              amount == AmountOf(el, rate[1])
              tuple == <<ItemOf(el).title, ItemOf(el).url, ItemOf(el).image_url,
                         FormatYen(amount), clock>>
          IN IF ~Stored(seen_items, sig)
             THEN /\ new_items' = Append(new_items, tuple)
                  /\ seen_items' = Append(seen_items, Entry(sig, amount, clock))
             ELSE IF amount < PriceIn(seen_items, sig)
             THEN /\ new_items' = Append(new_items, tuple)
                  /\ Len(seen_items') = Len(seen_items)
                  /\ \A i \in 1..Len(seen_items) :
                        seen_items'[i] = IF seen_items[i].sig = sig
                                         THEN Entry(sig, amount, clock)
                                         ELSE seen_items[i]
             ELSE new_items' = new_items ]_vars

\* C1 witness: the last element was reported as cheaper: its entry, stored
\* before this fetch_items call, now holds its amount and the current time.
C1_Witness ==
    /\ cur # None
    /\ pc \in {"process", "deliver"}
    /\ ReachesStore(cur[1], rate[1])
    /\ SigOf(cur[1]) \in cheapened
    /\ new_items # <<>>
    /\ new_items[Len(new_items)][4] = FormatYen(AmountOf(cur[1], rate[1]))
    /\ PriceIn(seen_items, SigOf(cur[1])) = AmountOf(cur[1], rate[1])
    /\ Get(seen_items, SigOf(cur[1])).timestamp = clock
    /\ clock > 0

\* C2: once a signature is in the store its entry stays and its price never
\* increases, and an evaluation with an amount equal to or higher than the
\* stored price leaves the whole store as it is.
C2_PriceNeverIncreases ==
    [][ /\ \A i \in 1..Len(seen_items) :
              /\ i <= Len(seen_items')
              /\ seen_items'[i].sig = seen_items[i].sig
              /\ seen_items'[i].price <= seen_items[i].price
        /\ (/\ ProcessStep
            /\ ReachesStore(cur'[1], rate[1])
            /\ Stored(seen_items, SigOf(cur'[1]))
            /\ AmountOf(cur'[1], rate[1]) >= PriceIn(seen_items, SigOf(cur'[1])))
              => seen_items' = seen_items ]_vars

\* C2 witness: the last element reached the store check with an amount above
\* the price stored for its signature.
C2_Witness ==
    /\ cur # None
    /\ ReachesStore(cur[1], rate[1])
    /\ Stored(seen_items, SigOf(cur[1]))
    /\ AmountOf(cur[1], rate[1]) > PriceIn(seen_items, SigOf(cur[1]))

\* C3: handling the same element again, against the store its first handling
\* left, appends nothing and leaves the store as it is.
C3_SecondTimeUnchanged ==
    [][ (ProcessStep /\ cur # None /\ cur' = cur) =>
          (seen_items' = seen_items /\ new_items' = new_items) ]_vars

\* C3 witness: the last element was handled twice in a row, and it is one
\* that reached the store check.
C3_Witness ==
    /\ repeated
    /\ ReachesStore(cur[1], rate[1])
    /\ Stored(seen_items, SigOf(cur[1]))

\* C4: for every signature in the store, the stored price is the lowest
\* amount that the price parser produced for a record of that signature since
\* the signature entered the store.
C4_StoredPriceIsLowestParsed ==
    /\ Len(lowest) = Len(seen_items)
    /\ \A i \in 1..Len(seen_items) : seen_items[i].price = lowest[i]

\* The n entries of s inserted last (all of s when it has fewer).
LastEntries(s, n) == SubSeq(s, Len(s) - Min(n, Len(s)) + 1, Len(s))

\* C5: after save_seen_items the persisted store holds at most MAX_SEEN_ITEMS
\* entries, for every value of MAX_SEEN_ITEMS (0 too), and they are the
\* MAX_SEEN_ITEMS entries inserted last, in insertion order.
C5_SaveKeepsTheLastMax ==
    last_save = "ok" =>
        /\ seen_file.kind = "map"
        /\ Len(seen_file.data) <= MAX_SEEN_ITEMS
        /\ seen_file.data = LastEntries(seen_items, MAX_SEEN_ITEMS)

\* C6: the order in which a save evicts is the order of first insertion: an
\* overwrite of an entry as cheaper leaves its place in the store alone, and
\* what a save keeps is an end piece of that order, so an entry is evicted
\* before every entry inserted after it.
C6_EvictionByFirstInsertion ==
    /\ KeySeq(seen_items) = inserted
    /\ last_save = "ok" =>
          \E k \in 0..Len(seen_items) :
             seen_file.data = SubSeq(seen_items, k + 1, Len(seen_items))

\* C6 witness: a save has just evicted an entry that had been overwritten as
\* cheaper, and kept an entry inserted after it.
C6_Witness ==
    /\ last_save = "ok"
    /\ \E i \in 1..Len(seen_items) : \E j \in (i + 1)..Len(seen_items) :
          /\ seen_items[i].sig \in cheapened
          /\ seen_items[i].sig \notin Keys(seen_file.data)
          /\ seen_items[j].sig \in Keys(seen_file.data)

\* C7: when a cached rate exists and the live request fails, the call returns
\* the cached rate, stale or not.
C7_FailedFetchReturnsCached ==
    (/\ rate_call # None
     /\ rate_call[1].cached # None
     /\ rate_call[1].asked
     /\ rate_call[1].live.kind # "ok")
        => rate_call[1].ret = rate_call[1].cached[1]

\* C8: when no cached rate exists and the live request fails, the call
\* returns exactly 145.0.
C8_NoCacheFailedFetchReturnsDefault ==
    (/\ rate_call # None
     /\ rate_call[1].cached = None
     /\ rate_call[1].live.kind # "ok")
        => rate_call[1].ret = Rat(145, 1)

\* C8 witness: a call without a cache whose live request raised an exception
\* that get_usd_to_jpy_rate does not handle.
C8_Witness ==
    /\ rate_call # None
    /\ rate_call[1].cached = None
    /\ rate_call[1].live.kind = "value_error"
    /\ rate_call[1].ret = Rat(145, 1)
    /\ cached_exchange_rate = None

\* C9: with a cached rate younger than 3600 s the call returns it, asks for
\* no live rate and leaves the cache alone; otherwise it asks for the live
\* rate and, when that succeeds, caches it with the current time.
C9_CacheValidForAnHour ==
    rate_call # None =>
        LET c == rate_call[1]
        IN IF c.cached # None /\ c.last # None /\ c.now - c.last[1] < 3600
           THEN /\ c.ret = c.cached[1]
                /\ ~c.asked
                /\ cached_exchange_rate = c.cached
                /\ last_exchange_rate_update = c.last
           ELSE /\ c.asked
                /\ c.live.kind = "ok" =>
                      /\ c.ret = c.live.rate
                      /\ cached_exchange_rate = Some(c.live.rate)
                      /\ last_exchange_rate_update = Some(c.now)

\* C9 witness: a call that found a cache of age 3598 s and returned it, while
\* the live rate it did not ask for was another one.
C9_Witness ==
    /\ rate_call # None
    /\ rate_call[1].cached # None
    /\ rate_call[1].now - rate_call[1].last[1] = 3598
    /\ ~rate_call[1].asked
    /\ rate_call[1].live.kind = "ok"
    /\ rate_call[1].live.rate # rate_call[1].cached[1]
    /\ rate_call[1].ret = rate_call[1].cached[1]

\* Each wait is the one before it times one factor p/q > 1, the first wait
\* being the base delay.
Geometric(w, base) ==
    /\ Len(w) >= 1 => w[1] = base
    /\ \E p \in 1..(2 * MaxRetries), q \in 1..(2 * MaxRetries) :
          /\ p > q
          /\ \A i \in 2..Len(w) : w[i] * q = w[i - 1] * p

\* C10: for every attempt count and base delay, the waits between the failed
\* attempts of fetch_with_retry grow geometrically from the base delay.
C10_BackoffIsExponential ==
    retry_out # None => Geometric(retry_out[1].waits, retry_in.delay)

\* The step is main calling fetch_items.
FetchStep == pc = "keyword" /\ fetches' = fetches + 1

\* What one fetch_with_retry call with max attempts owes: no more than max
\* requests; a response exactly when one of them succeeded, and then the
\* first success was the last request made; no response only after max
\* failed requests in a row.
RetryContract(call, max) ==
    LET r == call.res
        failed(n) == \A i \in 1..n : call.outs[i] = "request_error"
    IN /\ r.attempts \in 1..max
       /\ r.status \in {"ok", "raised"}
       /\ r.status = "ok" => call.outs[r.attempts] = "ok" /\ failed(r.attempts - 1)
       /\ r.status = "raised" => r.attempts = max /\ failed(max)

\* C11: fetch_with_retry makes at most max_retries requests, returns at the
\* first success and gives up only after max_retries failures in a row; when
\* the parent fetch or the iframe fetch gives up, fetch_items returns an empty
\* list and leaves the store as it is.
C11_GiveUpReturnsEmpty ==
    [][ FetchStep =>
          LET log == fetch_log'[1]
          IN /\ RetryContract(log.parent[1], 3)
             /\ log.iframe # None => RetryContract(log.iframe[1], 3)
             /\ GaveUp(log) =>
                   /\ pc' = "deliver"
                   /\ new_items' = <<>>
                   /\ seen_items' = seen_items ]_vars

\* C11 witness: the parent fetch succeeded at its second request, the iframe
\* fetch gave up after three, and fetch_items returned nothing with a store
\* that holds an entry.
C11_Witness ==
    /\ fetch_log # None
    /\ fetch_log[1].parent[1].res = [status |-> "ok", attempts |-> 2, waits |-> <<2>>]
    /\ fetch_log[1].iframe # None
    /\ fetch_log[1].iframe[1].res.status = "raised"
    /\ fetch_log[1].iframe[1].res.attempts = 3
    /\ pc = "deliver"
    /\ new_items = <<>>
    /\ seen_items # <<>>

\* C12: in every cycle fetch_items is called once for every keyword, in the
\* configured order, whatever fetch gave up or raised for an earlier keyword:
\* the calls of the running cycle are always the first keywords in order, as
\* many as the loop has reached, and all of them when the cycle's save begins.
C12_EveryKeywordOncePerCycle ==
    /\ Len(calls) <= Len(KEYWORDS)
    /\ calls = SubSeq(KEYWORDS, 1, Len(calls))
    /\ pc = "keyword" => Len(calls) = kwi - 1
    /\ pc \in {"process", "deliver"} => Len(calls) = kwi
    /\ pc = "save" => calls = KEYWORDS

\* C12 witness: fetch_items raised for the first keyword and the fetch of the
\* second gave up, and the cycle has called fetch_items for both.
C12_Witness ==
    /\ pc = "deliver"
    /\ calls = KEYWORDS
    /\ KEYWORDS[1] \in troubles
    /\ fetch_log # None
    /\ GaveUp(fetch_log[1])

\* C16: between the fetch_items calls of two consecutive keywords of a cycle
\* KEYWORD_BATCH_DELAY elapses, also when the body of the earlier keyword
\* raised an exception.
C16_DelayBetweenKeywords ==
    [][ (FetchStep /\ fetch_time # None) =>
          clock >= fetch_time[1] + KEYWORD_BATCH_DELAY ]_vars

\* The item url or the image url of the element is missing: the attribute is
\* absent or empty.
MissingUrl(el) == el.href = EmptyStr \/ el.src = EmptyStr

\* C13: a record whose item url or image url is missing never reaches the
\* store: it is not inserted, overwrites nothing and is not reported.
C13_MissingUrlNeverStored ==
    [][ (ProcessStep /\ MissingUrl(cur'[1])) =>
          (seen_items' = seen_items /\ new_items' = new_items) ]_vars

\* The price text of the element does not parse, or handling it raises.
FailsToParse(el, r) ==
    ExtractItem(el) # <<>> /\ ParsedOf(el, r).formatted = None

C15_UnwindSavesAndNotifies ==
    pc = "stopped" =>
        /\ \E i \in 1..Len(unwind) : unwind[i] = "save_seen_items"
        /\ \E i \in 1..Len(unwind) : unwind[i] = "send_telegram_message"

\* The step is main sending the batch that fetch_items returned.
DeliverStep == pc = "deliver" /\ pc' # "stopped"

CountsAgree ==
    \A i \in 1..Len(KEYWORDS) :
       LET k == KEYWORDS[i]
       IN CASE pc = "deliver" /\ i = kwi ->
                  daily_counts[k] + Len(new_items) = returned[k]
            [] pc = "stopped" -> TRUE
            [] OTHER -> daily_counts[k] = returned[k]

\* The step is a cycle's end in which send_daily_summary ran.
SummaryStep == pc = "save" /\ summary' # None

\* C18: the counter is empty when the process starts; for every keyword the
\* count is the number of items fetch_items returned for it since the last
\* daily summary; and send_daily_summary reads exactly these counts and
\* leaves the counter empty.
C18_DailyCounterLifecycle ==
    /\ daily_counts = EmptyCounts
    /\ [][ /\ CountsAgree'
           /\ SummaryStep =>
                 /\ summary'[1] = returned
                 /\ daily_counts' = EmptyCounts ]_vars

\* C18 witness: a daily summary has read a count for the first keyword, and
\* since then fetch_items has returned one more item for it, which is the
\* count now.
C18_Witness ==
    /\ summary # None
    /\ summary[1][KEYWORDS[1]] >= 1
    /\ pc = "keyword"
    /\ kwi = 2
    /\ daily_counts[KEYWORDS[1]] = 1
    /\ returned[KEYWORDS[1]] = 1

\* C19: load_seen_items always returns a map: the map of the file when the
\* file holds a mapping of signatures to entries of price and timestamp, the
\* empty map when the file is missing, unreadable or holds anything else.
C19_LoadAlwaysReturnsMap ==
    load_out # None =>
        /\ load_out[1].type = "dict"
        /\ IF seen_file.kind = "map"
           THEN load_out[1].data = seen_file.data
           ELSE load_out[1].data = <<>>

\* The run at i of text holds digits, and the word yen follows it (after
\* white space or none).
BareYenAt(text, i) ==
    /\ text[i].k = "num"
    /\ SkipSpace(text, i + 1) <= Len(text)
    /\ text[SkipSpace(text, i + 1)].k = "yen"

\* A currency symbol at i of text, and digits follow it (after white space or
\* none).
SymbolPriceAt(text, i) ==
    /\ IsSymbol(text[i])
    /\ SkipSpace(text, i + 1) <= Len(text)
    /\ text[SkipSpace(text, i + 1)].k = "num"

\* C20: when the text holds a bare-yen pattern, digits followed by the word
\* yen, the amount is those digits, with no rate applied, whatever symbol
\* price the text holds as well; when the text holds neither a bare-yen
\* pattern nor a symbol followed by digits, both outputs are absent.
C20_BareYenFirst ==
    parse_out # None =>
        LET text == parse_in.text
            bare == {i \in 1..Len(text) : BareYenAt(text, i)}
            symbol == {i \in 1..Len(text) : SymbolPriceAt(text, i)}
        IN /\ bare # {} =>
                 /\ parse_out[1].numeric # None
                 /\ \E i \in bare :
                       /\ parse_out[1].numeric[1] = text[i].v
                       /\ parse_out[1].formatted = Some(FormatYen(text[i].v))
           /\ (bare = {} /\ symbol = {}) => parse_out[1] = NoPrice

\* The leftmost currency symbol of text that a run of digits and commas
\* follows (after white space or none); 0 if there is none.
FirstSymbolPrice(text) ==
    LET at == {i \in 1..Len(text) :
                  /\ IsSymbol(text[i])
                  /\ SkipSpace(text, i + 1) <= Len(text)
                  /\ IsRun(text[SkipSpace(text, i + 1)])}
    IN IF at = {} THEN 0 ELSE CHOOSE i \in at : \A j \in at : i <= j

\* The text is a symbol-prefixed price: no run stands before the word yen,
\* and the run after the leftmost symbol that has one holds digits.
SymbolPrefixed(text) ==
    /\ \A i \in 1..Len(text) :
          ~(/\ IsRun(text[i])
            /\ SkipSpace(text, i + 1) <= Len(text)
            /\ text[SkipSpace(text, i + 1)].k = "yen")
    /\ FirstSymbolPrice(text) # 0
    /\ text[SkipSpace(text, FirstSymbolPrice(text) + 1)].k = "num"

\* C21: for a symbol-prefixed price, an amount after $ or US$ converts to
\* the whole number of yen at or below digits x rate, and an amount after the
\* yen sign is returned as its digits, whatever the rate.
C21_DollarFloorYenUnchanged ==
    (parse_out # None /\ SymbolPrefixed(parse_in.text)) =>
        LET text == parse_in.text
            s == FirstSymbolPrice(text)
            digits == text[SkipSpace(text, s + 1)].v
            r == parse_in.rate
        IN /\ ~parse_out[1].raised
           /\ parse_out[1].numeric =
                 IF text[s].k = "yensign" THEN Some(digits)
                 ELSE Some((digits * r.n) \div r.d)

\* The step is the save that ends a cycle.
SaveStep == pc = "save" /\ pc' = "keyword"

\* C22: save_seen_items leaves the store in memory as it is, whether the
\* write succeeds or fails: what it trims is the copy it writes.  So every
\* signature a save left out of the file is still in the store, which may
\* hold more than MAX_SEEN_ITEMS entries, and a record of such a signature is
\* never inserted again, and is reported only when it is strictly cheaper
\* than the stored price.
C22_SaveLeavesMemoryAlone ==
    [][ /\ SaveStep =>
              /\ seen_items' = seen_items
              /\ last_save' = "ok" =>
                    /\ seen_file'.data = Trimmed(seen_items, MAX_SEEN_ITEMS)
                    /\ evicted' = Keys(seen_items) \ Keys(seen_file'.data)
        /\ evicted' \subseteq Keys(seen_items')
        /\ (/\ ProcessStep
             /\ ReachesStore(cur'[1], rate[1])
             /\ SigOf(cur'[1]) \in evicted) =>
              /\ KeySeq(seen_items') = KeySeq(seen_items)
              /\ AmountOf(cur'[1], rate[1]) >= PriceIn(seen_items, SigOf(cur'[1]))
                    => (new_items' = new_items /\ seen_items' = seen_items) ]_vars

\* C22 witness: a save wrote a file without the signature of the record
\* handled last, the store holds more entries than MAX_SEEN_ITEMS, and the
\* record, met again in the cycle after the save, was not reported.
C22_Witness ==
    /\ pc \in {"process", "deliver"}
    /\ cur # None
    /\ ReachesStore(cur[1], rate[1])
    /\ SigOf(cur[1]) \in evicted
    /\ seen_file.kind = "map"
    /\ SigOf(cur[1]) \notin Keys(seen_file.data)
    /\ Stored(seen_items, SigOf(cur[1]))
    /\ Len(seen_items) > MAX_SEEN_ITEMS
    /\ MAX_SEEN_ITEMS > 0
    /\ new_items = <<>>

\* The entry was stored for a record with the upstream title and the image
\* url of element el (the signature keeps the title in lower case).
SameListing(entry, el) ==
    /\ entry.sig.title.ja = Lower(el.title)
    /\ entry.sig.image = ItemOf(el).image_url

\* C23: a listing whose upstream title and image url are in the store since
\* an earlier cycle is not reported as new in a later cycle, whether its
\* title was translated in the one cycle and not in the other or not: the
\* store gets no new entry for it.
C23_SignatureStableAcrossCycles ==
    [][ (/\ ProcessStep
         /\ ReachesStore(cur'[1], rate[1])
         /\ Len(calls) = 1
         /\ \E i \in 1..Len(seen_items) :
               /\ SameListing(seen_items[i], cur'[1])
               /\ seen_items[i].timestamp < clock)
          => KeySeq(seen_items') = KeySeq(seen_items) ]_vars

\* C24: every record whose item url and image are present and whose price
\* text parses to an amount, 0 included, is checked against the store: it is
\* inserted and reported when its signature is not stored, its entry is
\* overwritten and it is reported when its amount is below the stored price,
\* and nothing changes otherwise.
C24_ZeroAmountEvaluated ==
    [][ (/\ ProcessStep
         /\ ~MissingUrl(cur'[1])
         /\ ParsedOf(cur'[1], rate[1]).numeric # None) =>
          LET sig == SigOf(cur'[1])
              amount == AmountOf(cur'[1], rate[1])
          IN IF ~Stored(seen_items, sig)
             THEN /\ Stored(seen_items', sig)
                  /\ PriceIn(seen_items', sig) = amount
                  /\ Len(new_items') = Len(new_items) + 1
             ELSE IF amount < PriceIn(seen_items, sig)
             THEN /\ PriceIn(seen_items', sig) = amount
                  /\ Len(new_items') = Len(new_items) + 1
             ELSE /\ seen_items' = seen_items
                  /\ new_items' = new_items ]_vars

\* The amount that a formatted price shows.
RECURSIVE AmountShown(_)
AmountShown(groups) ==
    IF Len(groups) = 1 THEN groups[1]
    ELSE AmountShown(SubSeq(groups, 1, Len(groups) - 1)) * 1000 + groups[Len(groups)]

\* The signature and the amount of a reported item.
SigOfItem(it) == Signature(it[1], it[3])
AmountOfItem(it) == AmountShown(it[4].groups)

C26_RateNeverStale ==
    [][ FetchStep =>
          /\ rate_time # None
          /\ clock - rate_time[1] < EXCHANGE_RATE_CACHE_DURATION ]_vars

=============================================================================
